---- MODULE Spec2Model ----
(***************************************************************************)
(* Clairvoyant steganographic codec (src/src/clairvoyant/stego.py).        *)
(*                                                                         *)
(* The state is a small file system (an input path, an output path and a   *)
(* path that never exists), the position of the single codec call in       *)
(* flight, the outcome of the last finished call, and the main window      *)
(* (src/src/clairvoyant/gui.py) with its workers.  Files are an RGB        *)
(* image (flat pixel buffer), a raw byte file (host of the append codec)   *)
(* or a video (a sequence of frame pixel buffers).  Image and video        *)
(* encoders are taken to be lossless; what the codec computes on the       *)
(* decoded buffers is modelled byte by byte and bit by bit.                *)
(***************************************************************************)
EXTENDS Integers, Sequences, FiniteSets, TLC

VARIABLES files, pc, loc, result, opened, out_before, nembeds, gui

vars == <<files, pc, loc, result, opened, out_before, nembeds, gui>>

(***************************************************************************)
(* Bounds of the model.                                                    *)
(***************************************************************************)
MaxW == 4
MaxH == 4
MaxMsgLen == 3
MaxBits == 9
MaxEmbeds == 1
MaxVidSide == 2
MaxFrames == 4
MaxBpc == 2
MaxHostPieces == 2
MaxMsgPieces == 1
\* the tail window of extract_message_from_video, 10 MiB in the source, scaled
\* so that payloads longer than the window are within the model
MaxTail == 14

(***************************************************************************)
(* Program constants.                                                      *)
(***************************************************************************)
HEADER_LEN_BYTES == 4

Min(a, b) == IF a < b THEN a ELSE b

RECURSIVE SeqsUpTo(_, _)
SeqsUpTo(S, n) ==
    IF n = 0 THEN {<< >>}
    ELSE LET shorter == SeqsUpTo(S, n - 1)
         IN  shorter \cup {Append(s, x) : s \in {t \in shorter : Len(t) = n - 1}, x \in S}

(***************************************************************************)
(* Bit packing.                                                            *)
(***************************************************************************)
\* faulty variant of _bytes_to_bits: least-significant bit first
bytes_to_bits_lsb_first(data) ==
    [k \in 1 .. 8 * Len(data) |->
        (data[((k - 1) \div 8) + 1] \div (2 ^ ((k - 1) % 8))) % 2]

\* for byte in data: for i in 7..0: yield (byte >> i) & 1
_bytes_to_bits(data) ==
    [k \in 1 .. 8 * Len(data) |->
        (data[((k - 1) \div 8) + 1] \div (2 ^ (7 - ((k - 1) % 8)))) % 2]

\* the loop of _bits_to_bytes from bit position i on, with its acc, count and b
RECURSIVE bits_to_bytes_loop(_, _, _, _, _)
bits_to_bytes_loop(bits, i, acc, count, b) ==
    IF i > Len(bits) THEN b
    ELSE LET acc1 == acc * 2 + (bits[i] % 2)
             count1 == count + 1
         IN  IF count1 = 8
             THEN bits_to_bytes_loop(bits, i + 1, 0, 0, Append(b, acc1))
             ELSE bits_to_bytes_loop(bits, i + 1, acc1, count1, b)

\* faulty variant of _bits_to_bytes: a trailing incomplete group is flushed as a byte
bits_to_bytes_flush(bits) ==
    LET whole == bits_to_bytes_loop(SubSeq(bits, 1, 8 * (Len(bits) \div 8)), 1, 0, 0, << >>)
        rest == SubSeq(bits, 8 * (Len(bits) \div 8) + 1, Len(bits))
    IN  IF Len(rest) = 0 THEN whole
        ELSE Append(whole, bits_to_bytes_loop(rest \o [k \in 1 .. 8 - Len(rest) |-> 0],
                                              1, 0, 0, << >>)[1])

_bits_to_bytes(bits) == bits_to_bytes_loop(bits, 1, 0, 0, << >>)

(***************************************************************************)
(* Header framing: int.to_bytes(4, "big") and int.from_bytes(.., "big").   *)
(* Python integers are unbounded; a decoded length of 2^24 or more (a     *)
(* non-zero leading byte) is represented by HugeLength, which is larger    *)
(* than every buffer and file of the model, so every comparison the code   *)
(* makes with it has the outcome it has for the exact value.               *)
(***************************************************************************)
HugeLength == 256 * 256 * 256

to_bytes(n, k) == [i \in 1 .. k |-> (n \div (256 ^ (k - i))) % 256]

RECURSIVE horner(_, _, _)
horner(bs, i, acc) ==
    IF i > Len(bs) THEN acc ELSE horner(bs, i + 1, acc * 256 + bs[i])

from_bytes(bs) ==
    IF Len(bs) = HEADER_LEN_BYTES /\ bs[1] # 0 THEN HugeLength ELSE horner(bs, 1, 0)

\* length.to_bytes(HEADER_LEN_BYTES, "big") + message
frame_payload(message) == to_bytes(Len(message), HEADER_LEN_BYTES) \o message

(***************************************************************************)
(* Files.                                                                  *)
(***************************************************************************)
NoFile == [kind |-> "none"]

Paths == {"in", "out", "missing"}

ImageFile(w, h, px) == [kind |-> "image", w |-> w, h |-> h, px |-> px]

\* pixel byte i (0-based) of the input picture p
PixelPattern(p, i) ==
    CASE p = 0 -> 0
      [] p = 1 -> 255
      [] p = 2 -> (i * 37 + 11) % 256
      [] p = 3 -> IF i = 31 THEN 1 ELSE 254
      [] p = 4 -> IF i = 30 THEN 77 ELSE 2 * (i % 100)
      [] OTHER -> IF i \in {29, 31} THEN 3 ELSE (i * 6) % 256

PixelPatterns == 0 .. 5

PatternBuffer(p, n) == [i \in 1 .. n |-> PixelPattern(p, i - 1)]

InputImages ==
    {ImageFile(w, h, PatternBuffer(p, w * h * 3)) :
        w \in 1 .. MaxW, h \in 1 .. MaxH, p \in PixelPatterns}

\* the payloads: two byte strings and their prefixes
Payload(n) == [i \in 1 .. n |-> (i * 83 + 53) % 256]

AltPayload(n) == [i \in 1 .. n |-> (i * 57 + 200) % 256]

Messages == {Payload(n) : n \in 0 .. MaxMsgLen} \cup {AltPayload(n) : n \in 0 .. MaxMsgLen}

(***************************************************************************)
(* Image LSB codec.                                                        *)
(***************************************************************************)
estimate_image_capacity(img) ==
    LET total_bits == img.w * img.h * 3
        usable_bits == total_bits - (HEADER_LEN_BYTES * 8)
    IN  IF usable_bits < 0 THEN 0 ELSE usable_bits \div 8

\* pixel_bytes[i] = (pixel_bytes[i] & 0xFE) | bit
set_lsb(byte, bit) == (byte \div 2) * 2 + bit

\* the write loop of the embed functions: bits[from .. from+n-1] into buffer[1..n]
write_bits(buffer, bits, from, n) ==
    [i \in 1 .. Len(buffer) |->
        IF i <= n THEN set_lsb(buffer[i], bits[from + i - 1]) ELSE buffer[i]]

Outcome(status, err, wrote, out, value, reads) ==
    [status |-> status, err |-> err, wrote |-> wrote, out |-> out,
     value |-> value, reads |-> reads]

\* faulty variant of embed_message_into_image: the size check accepts one bit too many
embed_image_off_by_one(f, message) ==
    IF f.kind # "image"
    THEN Outcome("error", "InputNotFound", FALSE, NoFile, << >>, 0)
    ELSE LET payload_bits == _bytes_to_bits(frame_payload(message))
         IN  IF Len(payload_bits) > Len(f.px) + 8
             THEN Outcome("error", "PayloadTooLarge", FALSE, NoFile, << >>, 0)
             ELSE Outcome("ok", "", TRUE,
                          ImageFile(f.w, f.h,
                                    write_bits(f.px, payload_bits, 1,
                                               Min(Len(payload_bits), Len(f.px)))),
                          << >>, 0)

\* faulty variant of embed_message_into_image: the output is saved before the size check
embed_image_save_first(f, message) ==
    IF f.kind # "image"
    THEN Outcome("error", "InputNotFound", FALSE, NoFile, << >>, 0)
    ELSE LET payload_bits == _bytes_to_bits(frame_payload(message))
             saved == ImageFile(f.w, f.h,
                                write_bits(f.px, payload_bits, 1,
                                           Min(Len(payload_bits), Len(f.px))))
         IN  IF Len(payload_bits) > Len(f.px)
             THEN Outcome("error", "PayloadTooLarge", TRUE, saved, << >>, 0)
             ELSE Outcome("ok", "", TRUE, saved, << >>, 0)

\* embed_message_into_image on the content f of the input path
embed_message_into_image(f, message) ==
    IF f.kind # "image"
    THEN Outcome("error", "InputNotFound", FALSE, NoFile, << >>, 0)
    ELSE LET payload_bits == _bytes_to_bits(frame_payload(message))
         IN  IF Len(payload_bits) > Len(f.px)
             THEN Outcome("error", "PayloadTooLarge", FALSE, NoFile, << >>, 0)
             ELSE Outcome("ok", "", TRUE,
                          ImageFile(f.w, f.h,
                                    write_bits(f.px, payload_bits, 1, Len(payload_bits))),
                          << >>, 0)

\* faulty variant of extract_message_from_image: the bit of a byte is whether
\* the byte is non-zero
extract_image_nonzero_bit(f) ==
    IF f.kind # "image"
    THEN Outcome("error", "InputNotFound", FALSE, NoFile, << >>, 0)
    ELSE LET n == Len(f.px)
             hn == HEADER_LEN_BYTES * 8
             bit(i) == IF f.px[i] # 0 THEN 1 ELSE 0
         IN  IF n < hn
             THEN Outcome("error", "IndexError", FALSE, NoFile, << >>, n)
             ELSE LET length == from_bytes(_bits_to_bytes([i \in 1 .. hn |-> bit(i)]))
                      total_bits_needed == length * 8
                  IN  IF hn + total_bits_needed > n
                      THEN Outcome("error", "IndexError", FALSE, NoFile, << >>, n)
                      ELSE Outcome("ok", "", FALSE, NoFile,
                                   _bits_to_bytes([i \in 1 .. total_bits_needed |-> bit(hn + i)]),
                                   hn + total_bits_needed)

\* faulty variant of extract_message_from_image: reads stop at the end of the buffer
extract_image_clamped(f) ==
    IF f.kind # "image"
    THEN Outcome("error", "InputNotFound", FALSE, NoFile, << >>, 0)
    ELSE LET n == Len(f.px)
             hn == Min(n, HEADER_LEN_BYTES * 8)
             length == from_bytes(_bits_to_bytes([i \in 1 .. hn |-> f.px[i] % 2]))
             avail == IF n > hn THEN Min(length * 8, n - hn) ELSE 0
         IN  Outcome("ok", "", FALSE, NoFile,
                     _bits_to_bytes([i \in 1 .. avail |-> f.px[hn + i] % 2]),
                     hn + avail)

\* extract_message_from_image on the content f of the input path; reads is the
\* number of pixel bytes read before the call returned or raised
extract_message_from_image(f) ==
    IF f.kind # "image"
    THEN Outcome("error", "InputNotFound", FALSE, NoFile, << >>, 0)
    ELSE LET n == Len(f.px)
             hn == HEADER_LEN_BYTES * 8
         IN  IF n < hn
             THEN Outcome("error", "IndexError", FALSE, NoFile, << >>, n)
             ELSE LET header_bits == [i \in 1 .. hn |-> f.px[i] % 2]
                      length == from_bytes(_bits_to_bytes(header_bits))
                      total_bits_needed == length * 8
                  IN  IF hn + total_bits_needed > n
                      THEN Outcome("error", "IndexError", FALSE, NoFile, << >>, n)
                      ELSE Outcome("ok", "", FALSE, NoFile,
                                   _bits_to_bytes([i \in 1 .. total_bits_needed |->
                                                      f.px[hn + i] % 2]),
                                   hn + total_bits_needed)

(***************************************************************************)
(* Video append codec.  A raw file is its byte sequence.  Python slices    *)
(* and offsets are 0-based; sequences here are 1-based.                    *)
(***************************************************************************)
RawFile(bytes) == [kind |-> "raw", bytes |-> bytes]

\* b'CLRV1'
marker == <<67, 76, 82, 86, 49>>

\* s[a:b]
slice(s, a, b) == SubSeq(s, a + 1, Min(b, Len(s)))

\* s.rfind(m): the highest 0-based index where m occurs in s, or -1
rfind(s, m) ==
    LET hits == {i \in 0 .. Len(s) - Len(m) : SubSeq(s, i + 1, i + Len(m)) = m}
    IN  IF hits = {} THEN -1 ELSE CHOOSE i \in hits : \A j \in hits : j <= i

\* f.seek(pos); f.read(n)
read_at(bytes, pos, n) == SubSeq(bytes, pos + 1, Min(pos + n, Len(bytes)))

\* faulty variant of embed_message_into_video: the length is written little-endian
embed_video_little_endian(f, message) ==
    IF f.kind = "none"
    THEN Outcome("error", "InputNotFound", FALSE, NoFile, << >>, 0)
    ELSE LET length == Len(message)
             le == [i \in 1 .. HEADER_LEN_BYTES |-> (length \div (256 ^ (i - 1))) % 256]
         IN  Outcome("ok", "", TRUE, RawFile(f.bytes \o marker \o le \o message), << >>, 0)

embed_message_into_video(f, message) ==
    IF f.kind = "none"
    THEN Outcome("error", "InputNotFound", FALSE, NoFile, << >>, 0)
    ELSE LET length == Len(message)
             envelope == marker \o to_bytes(length, HEADER_LEN_BYTES) \o message
         IN  Outcome("ok", "", TRUE, RawFile(f.bytes \o envelope), << >>, 0)

\* faulty variant of extract_message_from_video: the re-read returns what it could read
extract_video_short_read(f) ==
    IF f.kind = "none"
    THEN Outcome("error", "InputNotFound", FALSE, NoFile, << >>, 0)
    ELSE LET fsize == Len(f.bytes)
             read_len == Min(fsize, MaxTail)
             tail == read_at(f.bytes, fsize - read_len, read_len)
             idx == rfind(tail, marker)
             start == idx + Len(marker)
             length == from_bytes(slice(tail, start, start + HEADER_LEN_BYTES))
             payload_start == start + HEADER_LEN_BYTES
         IN  IF idx = -1 \/ start + HEADER_LEN_BYTES > Len(tail)
             THEN Outcome("ok", "", FALSE, NoFile, << >>, 0)
             ELSE Outcome("ok", "", FALSE, NoFile,
                          slice(tail, payload_start, payload_start + length), 0)

extract_message_from_video(f) ==
    IF f.kind = "none"
    THEN Outcome("error", "InputNotFound", FALSE, NoFile, << >>, 0)
    ELSE LET marker_len == Len(marker)
             fsize == Len(f.bytes)
             read_len == Min(fsize, MaxTail)
             tail == read_at(f.bytes, fsize - read_len, read_len)
             idx == rfind(tail, marker)
             start == idx + marker_len
             length == from_bytes(slice(tail, start, start + HEADER_LEN_BYTES))
             payload_start == start + HEADER_LEN_BYTES
             payload_end == payload_start + length
             data == read_at(f.bytes,
                             fsize - read_len + idx + marker_len + HEADER_LEN_BYTES,
                             length)
         IN  IF idx = -1
             THEN Outcome("ok", "", FALSE, NoFile, << >>, 0)
             ELSE IF start + HEADER_LEN_BYTES > Len(tail)
             THEN Outcome("ok", "", FALSE, NoFile, << >>, 0)
             ELSE IF payload_end > Len(tail)
             THEN IF Len(data) # length
                  THEN Outcome("ok", "", FALSE, NoFile, << >>, 0)
                  ELSE Outcome("ok", "", FALSE, NoFile, data, 0)
             ELSE Outcome("ok", "", FALSE, NoFile,
                          slice(tail, payload_start, payload_end), 0)

\* the byte strings hosts and payloads are made of: the marker, a piece of
\* it, length fields and filler
Pieces == {marker, <<0, 0, 0, 2, 9>>, <<200, 0, 0, 2>>, <<67, 76>>}

RECURSIVE Concats(_)
Concats(n) ==
    IF n = 0 THEN {<< >>}
    ELSE Concats(n - 1) \cup {s \o x : s \in Concats(n - 1), x \in Pieces}

HostFiles == {RawFile(b) : b \in Concats(MaxHostPieces)}

\* a payload longer than the tail window
LongPayload == [i \in 1 .. MaxTail + 1 |-> 7]

AppendMessages == Concats(MaxMsgPieces) \cup {LongPayload}

(***************************************************************************)
(* Video frame-LSB codec.  A video is its decoded frames, each a flat      *)
(* pixel buffer of w*h*3 bytes in the channel order of the decoder the     *)
(* path uses; a corrupt file exists but no decoder opens it.               *)
(***************************************************************************)
VideoFile(w, h, frames) == [kind |-> "video", w |-> w, h |-> h, frames |-> frames]

CorruptFile == [kind |-> "corrupt"]

FramePatterns == {2, 3}

\* square frames of side w, n of them, filled from picture p
InputVideos ==
    {VideoFile(w, w, [k \in 1 .. n |->
                         [i \in 1 .. w * w * 3 |-> PixelPattern(p, (k - 1) * w * w * 3 + i - 1)]]) :
        w \in 1 .. MaxVidSide, n \in 0 .. MaxFrames, p \in FramePatterns}

VideoMessages == {Payload(n) : n \in 0 .. MaxMsgLen}

\* cv2.VideoCapture(path).isOpened()
cap_opened(f) == f.kind = "video"

estimate_video_capacity_lsb(f, bits_per_channel) ==
    IF ~cap_opened(f) THEN 0
    ELSE LET frames == Len(f.frames)
             channels == 3
             total_bits == frames * f.w * f.h * channels * bits_per_channel
             usable_bits == total_bits - (HEADER_LEN_BYTES * 8)
         IN  IF usable_bits < 0 THEN 0 ELSE usable_bits \div 8

\* max_modify = min(len(pixel_bytes), total_payload_bits - bit_idx)
max_modify(buffer, payload_bits, bit_idx) ==
    Min(Len(buffer), Len(payload_bits) - bit_idx)

\* the body of the per-frame loop: payload_bits[bit_idx ..] into the LSBs of
\* the frame's buffer from index 0 (bit_idx is 0-based)
embed_frame(buffer, payload_bits, bit_idx) ==
    write_bits(buffer, payload_bits, bit_idx + 1, max_modify(buffer, payload_bits, bit_idx))

\* the per-frame loop from frame k on (k 1-based, bit_idx 0-based): the frames
\* after it and the number of bits written
RECURSIVE embed_frames(_, _, _, _)
embed_frames(frames, k, payload_bits, bit_idx) ==
    IF k > Len(frames) \/ bit_idx >= Len(payload_bits)
    THEN [frames |-> frames, bit_idx |-> bit_idx]
    ELSE embed_frames([frames EXCEPT ![k] = embed_frame(@, payload_bits, bit_idx)],
                      k + 1, payload_bits,
                      bit_idx + max_modify(frames[k], payload_bits, bit_idx))

\* what a call meets outside the program: whether _find_ffmpeg finds the tool,
\* whether its frame extraction exits with 0, how its reassembly run ends, and
\* whether a VideoWriter opens on the output path
Environments ==
    [ffmpeg : BOOLEAN, exit_ok : BOOLEAN, run : {"ok", "failed", "failed_writing"},
     writer_ok : BOOLEAN]

\* embed_message_into_video_lsb as one call, on the content f of the input path
embed_message_into_video_lsb(f, message, bits_per_channel, env) ==
    LET payload_bits == _bytes_to_bits(frame_payload(message))
        cap_bytes == estimate_video_capacity_lsb(f, bits_per_channel)
        done == embed_frames(f.frames, 1, payload_bits, 0)
    IN  IF env.ffmpeg
        THEN IF cap_bytes # 0 /\ Len(message) > cap_bytes
             THEN Outcome("error", "PayloadTooLarge", FALSE, NoFile, << >>, 0)
             ELSE IF ~cap_opened(f) \/ ~env.exit_ok
             THEN Outcome("error", "CollaboratorFailed", FALSE, NoFile, << >>, 0)
             ELSE IF Len(f.frames) = 0
             THEN Outcome("error", "NoFrames", FALSE, NoFile, << >>, 0)
             ELSE IF done.bit_idx < Len(payload_bits)
             THEN Outcome("error", "PayloadTooLarge", FALSE, NoFile, << >>, 0)
             ELSE CASE env.run = "ok" ->
                         Outcome("ok", "", TRUE, VideoFile(f.w, f.h, done.frames), << >>, 0)
                    [] env.run = "failed" ->
                         Outcome("error", "CollaboratorFailed", FALSE, NoFile, << >>, 0)
                    [] OTHER ->
                         Outcome("error", "CollaboratorFailed", TRUE, CorruptFile, << >>, 0)
        ELSE IF ~cap_opened(f)
             THEN Outcome("error", "InputNotFound", FALSE, NoFile, << >>, 0)
             ELSE IF ~env.writer_ok
             THEN Outcome("error", "WriterUnavailable", FALSE, NoFile, << >>, 0)
             ELSE Outcome("ok", "", TRUE, VideoFile(f.w, f.h, done.frames), << >>, 0)

\* the bits a scan has collected and the pixel bytes it has read
NoBits == [header_bits |-> << >>, payload_bits |-> << >>, reads |-> 0]

\* the scan loops of extract_message_from_video_lsb from frame k on.  Of the
\* frame's bytes the first nh complete the header (while it has fewer than
\* 32 bits) and the next np go to the payload; the scan returns at the byte
\* that completes a zero-length header or the payload, and returns empty
\* when the frames run out.
RECURSIVE scan_frames(_, _, _)
scan_frames(frames, k, st) ==
    IF k > Len(frames)
    THEN Outcome("ok", "", FALSE, NoFile, << >>, st.reads)
    ELSE LET flat == frames[k]
             header_bits_needed == HEADER_LEN_BYTES * 8
             nh == Min(header_bits_needed - Len(st.header_bits), Len(flat))
             hb == st.header_bits \o [i \in 1 .. nh |-> flat[i] % 2]
             length == from_bytes(_bits_to_bytes(hb))
             total_payload_bits == length * 8
             np == Min(total_payload_bits - Len(st.payload_bits), Len(flat) - nh)
             pb == st.payload_bits \o [i \in 1 .. np |-> flat[nh + i] % 2]
         IN  IF Len(hb) < header_bits_needed
             THEN scan_frames(frames, k + 1,
                              [header_bits |-> hb, payload_bits |-> st.payload_bits,
                               reads |-> st.reads + Len(flat)])
             ELSE IF nh > 0 /\ total_payload_bits = 0
             THEN Outcome("ok", "", FALSE, NoFile, << >>, st.reads + nh)
             ELSE IF np > 0 /\ Len(pb) >= total_payload_bits
             THEN Outcome("ok", "", FALSE, NoFile, _bits_to_bytes(pb), st.reads + nh + np)
             ELSE scan_frames(frames, k + 1,
                              [header_bits |-> hb, payload_bits |-> pb,
                               reads |-> st.reads + Len(flat)])

\* faulty variant of extract_message_from_video_lsb: an empty frame list is an
\* error on the collaborator path, as it is in the embed
extract_video_lsb_no_frames_error(f, ffmpeg, exit_ok) ==
    IF ffmpeg
    THEN IF ~cap_opened(f) \/ ~exit_ok
         THEN Outcome("error", "CollaboratorFailed", FALSE, NoFile, << >>, 0)
         ELSE IF Len(f.frames) = 0
         THEN Outcome("error", "NoFrames", FALSE, NoFile, << >>, 0)
         ELSE scan_frames(f.frames, 1, NoBits)
    ELSE IF ~cap_opened(f)
         THEN Outcome("error", "InputNotFound", FALSE, NoFile, << >>, 0)
         ELSE scan_frames(f.frames, 1, NoBits)

\* extract_message_from_video_lsb on the content f of the input path; ffmpeg
\* is whether _find_ffmpeg found the tool, exit_ok whether its run succeeded
extract_message_from_video_lsb(f, ffmpeg, exit_ok) ==
    IF ffmpeg
    THEN IF ~cap_opened(f) \/ ~exit_ok
         THEN Outcome("error", "CollaboratorFailed", FALSE, NoFile, << >>, 0)
         ELSE IF Len(f.frames) = 0
         THEN Outcome("ok", "", FALSE, NoFile, << >>, 0)
         ELSE scan_frames(f.frames, 1, NoBits)
    ELSE IF ~cap_opened(f)
         THEN Outcome("error", "InputNotFound", FALSE, NoFile, << >>, 0)
         ELSE scan_frames(f.frames, 1, NoBits)

(***************************************************************************)
(* The main window: the selected path, the LSB-mode checkbox, the three    *)
(* buttons, the workers started and not yet handled, and the last dialog.  *)
(***************************************************************************)
NoGui ==
    [current_path |-> "none", video_lsb_cb |-> FALSE,
     open_btn |-> TRUE, embed_btn |-> TRUE, extract_btn |-> TRUE,
     workers |-> << >>, dialog |-> "none"]

(***************************************************************************)
(* Calls.                                                                  *)
(***************************************************************************)
NoLoc == [op |-> "none"]

Result(op, input, msg, bpc, ffmpeg, o, phase) ==
    [op |-> op, input |-> input, msg |-> msg, bpc |-> bpc, ffmpeg |-> ffmpeg,
     status |-> o.status, err |-> o.err, value |-> o.value, reads |-> o.reads,
     phase |-> phase]

NoResult ==
    [op |-> "none", input |-> "in", msg |-> << >>, bpc |-> 1, ffmpeg |-> FALSE,
     status |-> "none", err |-> "", value |-> << >>, reads |-> 0, phase |-> "idle"]

\* one finished call that did not touch pc or loc
Finish(r, o) ==
    /\ result' = r
    /\ opened' = o.wrote
    /\ out_before' = files["out"]
    /\ files' = IF o.wrote THEN [files EXCEPT !["out"] = o.out] ELSE files
    /\ UNCHANGED <<pc, loc, gui>>

EmbedImage ==
    /\ pc = "idle"
    /\ files["in"].kind = "image"
    /\ nembeds < MaxEmbeds
    /\ \E input \in {"in", "missing"}, message \in Messages :
          LET o == embed_message_into_image(files[input], message)
          IN  Finish(Result("embed_image", input, message, 1, FALSE, o, "done"), o)
    /\ nembeds' = nembeds + 1

ExtractImage ==
    /\ pc = "idle"
    /\ files["in"].kind = "image"
    /\ \E input \in Paths :
          LET o == extract_message_from_image(files[input])
          IN  Finish(Result("extract_image", input, << >>, 1, FALSE, o, "done"), o)
    /\ UNCHANGED nembeds

EmbedVideo ==
    /\ pc = "idle"
    /\ files["in"].kind = "raw"
    /\ nembeds < MaxEmbeds
    /\ \E input \in {"in", "missing"}, message \in AppendMessages :
          LET o == embed_message_into_video(files[input], message)
          IN  Finish(Result("embed_video", input, message, 1, FALSE, o, "done"), o)
    /\ nembeds' = nembeds + 1

ExtractVideo ==
    /\ pc = "idle"
    /\ files["in"].kind = "raw"
    /\ \E input \in Paths :
          LET o == extract_message_from_video(files[input])
          IN  Finish(Result("extract_video", input, << >>, 1, FALSE, o, "done"), o)
    /\ UNCHANGED nembeds

InitCall(inputs, existing) ==
    /\ files \in {[p \in Paths |-> IF p = "in" THEN f ELSE IF p = "out" THEN g ELSE NoFile] :
                     f \in inputs, g \in {NoFile, existing}}
    /\ pc = "idle"
    /\ loc = NoLoc
    /\ result = NoResult
    /\ opened = FALSE
    /\ out_before = files["out"]
    /\ nembeds = 0

InitFiles(inputs, existing) == InitCall(inputs, existing) /\ gui = NoGui

(***************************************************************************)
(* embed_message_into_video_lsb, one step per phase of the call.           *)
(***************************************************************************)
Ok == Outcome("ok", "", FALSE, NoFile, << >>, 0)

Err(e) == Outcome("error", e, FALSE, NoFile, << >>, 0)

\* the call ends: back to idle with its outcome
Return(o, phase) ==
    /\ result' = Result("embed_video_lsb", loc.input, loc.msg, loc.bpc, loc.ffmpeg, o, phase)
    /\ pc' = "idle"
    /\ loc' = NoLoc

\* lines 212-217 and the branch to the fallback at line 265
VLsbStart ==
    /\ pc = "idle"
    /\ files["in"].kind = "video"
    /\ nembeds < MaxEmbeds
    /\ \E input \in {"in", "missing"}, message \in VideoMessages,
          bits_per_channel \in 1 .. MaxBpc, ffmpeg \in BOOLEAN :
          LET cap_bytes == estimate_video_capacity_lsb(files[input], bits_per_channel)
              l == [op |-> "embed_video_lsb", input |-> input, msg |-> message,
                    bpc |-> bits_per_channel, ffmpeg |-> ffmpeg, td |-> << >>,
                    payload_bits |-> << >>, bit_idx |-> 0, fi |-> 1]
          IN  IF ffmpeg /\ cap_bytes # 0 /\ Len(message) > cap_bytes
              THEN /\ result' = Result("embed_video_lsb", input, message, bits_per_channel,
                                       ffmpeg, Err("PayloadTooLarge"), "precheck")
                   /\ UNCHANGED <<pc, loc>>
              ELSE /\ pc' = IF ffmpeg THEN "extracting" ELSE "fallback"
                   /\ loc' = l
                   /\ result' = NoResult
    /\ nembeds' = nembeds + 1
    /\ opened' = FALSE
    /\ out_before' = files["out"]
    /\ UNCHANGED <<files, gui>>

\* faulty variant of VLsbExtractFrames: a failed run of the collaborator is
\* answered by the fallback
extract_frames_then_fallback ==
    /\ pc = "extracting"
    /\ \E exit_ok \in BOOLEAN :
          IF ~cap_opened(files[loc.input]) \/ ~exit_ok
          THEN pc' = "fallback" /\ UNCHANGED <<loc, result>>
          ELSE IF Len(files[loc.input].frames) = 0
          THEN Return(Err("NoFrames"), "extracting")
          ELSE /\ pc' = "embedding"
               /\ loc' = [loc EXCEPT !.td = files[loc.input].frames,
                                     !.payload_bits = _bytes_to_bits(frame_payload(loc.msg)),
                                     !.bit_idx = 0, !.fi = 1]
               /\ UNCHANGED result
    /\ UNCHANGED <<files, opened, out_before, nembeds, gui>>

\* lines 219-239: the collaborator extracts the frames to the scratch directory
VLsbExtractFrames ==
    /\ pc = "extracting"
    /\ \E exit_ok \in BOOLEAN :
          IF ~cap_opened(files[loc.input]) \/ ~exit_ok
          THEN Return(Err("CollaboratorFailed"), "extracting")
          ELSE IF Len(files[loc.input].frames) = 0
          THEN Return(Err("NoFrames"), "extracting")
          ELSE /\ pc' = "embedding"
               /\ loc' = [loc EXCEPT !.td = files[loc.input].frames,
                                     !.payload_bits = _bytes_to_bits(frame_payload(loc.msg)),
                                     !.bit_idx = 0, !.fi = 1]
               /\ UNCHANGED result
    /\ UNCHANGED <<files, opened, out_before, nembeds, gui>>

\* lines 241-252: one iteration of the loop over the frame files
VLsbEmbedFrame ==
    /\ pc = "embedding"
    /\ loc.fi <= Len(loc.td)
    /\ loc.bit_idx < Len(loc.payload_bits)
    /\ loc' = [loc EXCEPT
                  !.td[loc.fi] = embed_frame(loc.td[loc.fi], loc.payload_bits, loc.bit_idx),
                  !.bit_idx = loc.bit_idx + max_modify(loc.td[loc.fi], loc.payload_bits, loc.bit_idx),
                  !.fi = loc.fi + 1]
    /\ UNCHANGED <<files, pc, result, opened, out_before, nembeds, gui>>

\* lines 241-243 and 254-255: the loop ends, and the guard after it
VLsbEmbedEnd ==
    /\ pc = "embedding"
    /\ loc.fi > Len(loc.td) \/ loc.bit_idx >= Len(loc.payload_bits)
    /\ IF loc.bit_idx < Len(loc.payload_bits)
       THEN Return(Err("PayloadTooLarge"), "embedding")
       ELSE pc' = "reassembling" /\ UNCHANGED <<loc, result>>
    /\ UNCHANGED <<files, opened, out_before, nembeds, gui>>

\* lines 257-263: the collaborator writes the output video from the frames;
\* a failed run may or may not have opened the output
VLsbReassemble ==
    /\ pc = "reassembling"
    /\ \E run \in {"ok", "failed", "failed_writing"} :
          /\ Return(IF run = "ok" THEN Ok ELSE Err("CollaboratorFailed"),
                    IF run = "ok" THEN "done" ELSE "reassembling")
          /\ opened' = (run # "failed")
          /\ files' = [files EXCEPT !["out"] =
                          CASE run = "ok" ->
                                 VideoFile(files[loc.input].w, files[loc.input].h, loc.td)
                            [] run = "failed" -> @
                            [] OTHER -> CorruptFile]
    /\ UNCHANGED <<out_before, nembeds, gui>>

\* lines 265-303: the input is opened, then the writer on the output path
VLsbFallbackOpen ==
    /\ pc = "fallback"
    /\ IF ~cap_opened(files[loc.input])
       THEN Return(Err("InputNotFound"), "fallback") /\ UNCHANGED <<files, opened>>
       ELSE \E writer_ok \in BOOLEAN :
               IF ~writer_ok
               THEN Return(Err("WriterUnavailable"), "fallback") /\ UNCHANGED <<files, opened>>
               ELSE /\ pc' = "fb_writing"
                    /\ loc' = [loc EXCEPT
                                  !.payload_bits = _bytes_to_bits(frame_payload(loc.msg)),
                                  !.bit_idx = 0, !.fi = 1]
                    /\ opened' = TRUE
                    /\ files' = [files EXCEPT !["out"] =
                                    VideoFile(files[loc.input].w, files[loc.input].h, << >>)]
                    /\ UNCHANGED result
    /\ UNCHANGED <<out_before, nembeds, gui>>

\* lines 306-318: one frame read, written to (while bits remain) and encoded
VLsbFallbackFrame ==
    /\ pc = "fb_writing"
    /\ loc.fi <= Len(files[loc.input].frames)
    /\ LET frame == files[loc.input].frames[loc.fi]
           some == loc.bit_idx < Len(loc.payload_bits)
       IN  /\ files' = [files EXCEPT !["out"].frames =
                           Append(@, IF some
                                     THEN embed_frame(frame, loc.payload_bits, loc.bit_idx)
                                     ELSE frame)]
           /\ loc' = [loc EXCEPT
                         !.bit_idx = IF some
                                     THEN @ + max_modify(frame, loc.payload_bits, loc.bit_idx)
                                     ELSE @,
                         !.fi = @ + 1]
    /\ UNCHANGED <<pc, result, opened, out_before, nembeds, gui>>

\* lines 307-309 and 320-321: no frame is left; the call returns
VLsbFallbackEnd ==
    /\ pc = "fb_writing"
    /\ loc.fi > Len(files[loc.input].frames)
    /\ Return(Ok, "done")
    /\ UNCHANGED <<files, opened, out_before, nembeds, gui>>

ExtractVideoLsb ==
    /\ pc = "idle"
    /\ files["in"].kind = "video"
    /\ \E input \in Paths, ffmpeg \in BOOLEAN, exit_ok \in BOOLEAN :
          LET o == extract_message_from_video_lsb(files[input], ffmpeg, exit_ok)
          IN  Finish(Result("extract_video_lsb", input, << >>, 1, ffmpeg, o, "done"), o)
    /\ UNCHANGED nembeds

InitVideo == InitFiles(InputVideos, VideoFile(1, 1, <<<<9, 9, 9>>>>))

InitRaw == InitFiles(HostFiles, RawFile(<<1, 2>>))

InitImage == InitFiles(InputImages, ImageFile(1, 1, <<9, 9, 9>>))

Init == InitImage \/ InitRaw \/ InitVideo

Next ==
    \/ EmbedImage
    \/ ExtractImage
    \/ EmbedVideo
    \/ ExtractVideo
    \/ VLsbStart
    \/ VLsbExtractFrames
    \/ VLsbEmbedFrame
    \/ VLsbEmbedEnd
    \/ VLsbReassemble
    \/ VLsbFallbackOpen
    \/ VLsbFallbackFrame
    \/ VLsbFallbackEnd
    \/ ExtractVideoLsb

Spec == Init /\ [][Next]_vars

\* the three media on their own
NextImage == EmbedImage \/ ExtractImage

SpecImage == InitImage /\ [][NextImage]_vars

NextAppend == EmbedVideo \/ ExtractVideo

SpecAppend == InitRaw /\ [][NextAppend]_vars

NextVideoLsb ==
    \/ VLsbStart
    \/ VLsbExtractFrames
    \/ VLsbEmbedFrame
    \/ VLsbEmbedEnd
    \/ VLsbReassemble
    \/ VLsbFallbackOpen
    \/ VLsbFallbackFrame
    \/ VLsbFallbackEnd
    \/ ExtractVideoLsb

SpecVideoLsb == InitVideo /\ [][NextVideoLsb]_vars

\* a call in flight runs on: the function is sequential code, each run of the
\* collaborator is a blocking subprocess.run, and the loops are over the frames
CallStep ==
    \/ VLsbExtractFrames
    \/ VLsbEmbedFrame
    \/ VLsbEmbedEnd
    \/ VLsbReassemble
    \/ VLsbFallbackOpen
    \/ VLsbFallbackFrame
    \/ VLsbFallbackEnd

SpecVideoLsbFair == SpecVideoLsb /\ WF_vars(CallStep)

(***************************************************************************)
(* The bit-packing functions on their own: Init draws the argument from a  *)
(* bounded set, and one step applies a function to it.                     *)
(***************************************************************************)
BitSeqs == SeqsUpTo({0, 1}, MaxBits)

PackResult(op, arg, value) ==
    [NoResult EXCEPT !.op = op, !.status = "ok", !.msg = arg, !.value = value]

InitBits ==
    /\ files = [p \in Paths |-> NoFile]
    /\ pc = "idle"
    /\ loc \in {[op |-> "pack", arg |-> a] : a \in BitSeqs \cup Messages}
    /\ result = NoResult
    /\ opened = FALSE
    /\ out_before = NoFile
    /\ nembeds = 0
    /\ gui = NoGui

BytesToBits ==
    /\ result.status = "none"
    /\ loc.arg \in Messages
    /\ result' = PackResult("_bytes_to_bits", loc.arg, _bytes_to_bits(loc.arg))
    /\ UNCHANGED <<files, pc, loc, opened, out_before, nembeds, gui>>

BitsToBytes ==
    /\ result.status = "none"
    /\ loc.arg \in BitSeqs
    /\ result' = PackResult("_bits_to_bytes", loc.arg, _bits_to_bytes(loc.arg))
    /\ UNCHANGED <<files, pc, loc, opened, out_before, nembeds, gui>>

NextBits == BytesToBits \/ BitsToBytes

SpecBits == InitBits /\ [][NextBits]_vars

(***************************************************************************)
(* The main window.  A handler runs on the main thread to its end; a       *)
(* Worker runs its codec call on a thread of its own and emits done or     *)
(* error, which the main thread handles when its event loop gets to it.    *)
(* A button takes a click only while it is enabled.                        *)
(***************************************************************************)
MaxWorkers == 2

\* current_path.lower().endswith((".mp4", ".avi", ".mov", ".mkv"))
is_video_path(path) == files[path].kind \in {"raw", "video", "corrupt"}

\* faulty variant of _disable_ui: the extract button is left enabled
disable_ui_keeps_extract(g) == [g EXCEPT !.open_btn = FALSE, !.embed_btn = FALSE]

_disable_ui(g) == [g EXCEPT !.open_btn = FALSE, !.embed_btn = FALSE, !.extract_btn = FALSE]

_enable_ui(g) == [g EXCEPT !.open_btn = TRUE, !.embed_btn = TRUE, !.extract_btn = TRUE]

\* a Worker on its thread
Worker(kind, fn, input, msg) ==
    [kind |-> kind, fn |-> fn, input |-> input, msg |-> msg, state |-> "running",
     result |-> << >>]

\* the sequence s without its element i
Without(s, i) == SubSeq(s, 1, i - 1) \o SubSeq(s, i + 1, Len(s))

GuiUnchanged == UNCHANGED <<pc, loc, result, opened, out_before, nembeds>>

\* open_image: the file dialog returns a path or is cancelled
OpenImage ==
    /\ gui.open_btn
    /\ \E path \in {"", "in", "out"} :
          /\ path # "" => files[path].kind # "none"
          /\ gui' = IF path = "" THEN [gui EXCEPT !.dialog = "none"]
                    ELSE [gui EXCEPT !.current_path = path, !.dialog = "none"]
    /\ UNCHANGED files
    /\ GuiUnchanged

\* embed_message: the message (encrypted or not), the passphrase check, the
\* save dialog; a video goes to a Worker, an image is embedded on the spot
EmbedMessage ==
    /\ gui.embed_btn
    /\ Len(gui.workers) < MaxWorkers
    /\ \E passphrase_missing \in BOOLEAN, suggested \in {"", "out"},
          text \in Messages \cup VideoMessages \cup AppendMessages :
          IF gui.current_path = "none"
          THEN gui' = [gui EXCEPT !.dialog = "no_file"] /\ UNCHANGED files
          ELSE IF passphrase_missing
          THEN gui' = [gui EXCEPT !.dialog = "passphrase_required"] /\ UNCHANGED files
          ELSE IF suggested = "" \/ gui.current_path = "out"
          THEN gui' = [gui EXCEPT !.dialog = "none"] /\ UNCHANGED files
          ELSE IF is_video_path(gui.current_path)
          THEN /\ text \in (IF gui.video_lsb_cb THEN VideoMessages ELSE AppendMessages)
               /\ gui' = [_disable_ui(gui) EXCEPT
                             !.workers = Append(@, Worker("embed",
                                                          IF gui.video_lsb_cb THEN "lsb" ELSE "append",
                                                          gui.current_path, text)),
                             !.dialog = "none"]
               /\ UNCHANGED files
          ELSE /\ text \in Messages
               /\ LET o == embed_message_into_image(files[gui.current_path], text)
                  IN  /\ gui' = [gui EXCEPT !.dialog = IF o.status = "ok" THEN "success" ELSE "error"]
                      /\ files' = IF o.wrote THEN [files EXCEPT !["out"] = o.out] ELSE files
    /\ GuiUnchanged

\* extract_message: a video goes to a Worker, an image is read on the spot
ExtractMessage ==
    /\ gui.extract_btn
    /\ Len(gui.workers) < MaxWorkers
    /\ IF gui.current_path = "none"
       THEN gui' = [gui EXCEPT !.dialog = "no_file"]
       ELSE IF is_video_path(gui.current_path)
       THEN gui' = [_disable_ui(gui) EXCEPT
                       !.workers = Append(@, Worker("extract",
                                                    IF gui.video_lsb_cb THEN "lsb" ELSE "append",
                                                    gui.current_path, << >>)),
                       !.dialog = "none"]
       ELSE LET o == extract_message_from_image(files[gui.current_path])
            IN  gui' = [gui EXCEPT !.dialog = IF o.status = "ok" THEN "extracted" ELSE "error"]
    /\ UNCHANGED files
    /\ GuiUnchanged

\* the outcomes the codec call of worker w can have
WorkerOutcomes(w) ==
    CASE w.kind = "embed" /\ w.fn = "append" ->
           {embed_message_into_video(files[w.input], w.msg)}
      [] w.kind = "embed" /\ w.fn = "lsb" ->
           {embed_message_into_video_lsb(files[w.input], w.msg, 1, env) : env \in Environments}
      [] w.kind = "extract" /\ w.fn = "append" ->
           {extract_message_from_video(files[w.input])}
      [] OTHER ->
           {extract_message_from_video_lsb(files[w.input], env.ffmpeg, env.exit_ok) :
               env \in Environments}

\* Worker.run: the call returns and done is emitted, or it raises and error is
WorkerRun ==
    /\ \E i \in 1 .. Len(gui.workers) :
          /\ gui.workers[i].state = "running"
          /\ \E o \in WorkerOutcomes(gui.workers[i]) :
                /\ gui' = [gui EXCEPT !.workers[i].state = IF o.status = "ok" THEN "done" ELSE "error",
                                      !.workers[i].result = o.value]
                /\ files' = IF o.wrote THEN [files EXCEPT !["out"] = o.out] ELSE files
    /\ GuiUnchanged

\* _on_embed_finished, _on_extract_finished, _on_worker_error: the signal of a
\* worker is handled
HandleSignal ==
    /\ \E i \in 1 .. Len(gui.workers) :
          LET w == gui.workers[i]
          IN  /\ w.state \in {"done", "error"}
              /\ gui' = [_enable_ui(gui) EXCEPT
                            !.workers = Without(@, i),
                            !.dialog = CASE w.state = "error" -> "error"
                                         [] w.kind = "embed" -> "success"
                                         [] w.result = << >> -> "no_message"
                                         [] OTHER -> "extracted"]
    /\ UNCHANGED files
    /\ GuiUnchanged

\* the window after construction, over a selectable file; the LSB-mode
\* checkbox is as the user left it, and is checked for a decodable video
InitGui ==
    \/ /\ InitCall(HostFiles, RawFile(<<1, 2>>))
       /\ gui \in {[NoGui EXCEPT !.video_lsb_cb = b] : b \in BOOLEAN}
    \/ /\ InitCall(InputVideos, VideoFile(1, 1, <<<<9, 9, 9>>>>))
       /\ gui = [NoGui EXCEPT !.video_lsb_cb = TRUE]
    \/ /\ InitCall({f \in InputImages : f.w = f.h}, ImageFile(1, 1, <<9, 9, 9>>))
       /\ gui \in {[NoGui EXCEPT !.video_lsb_cb = b] : b \in BOOLEAN}

NextGui ==
    \/ OpenImage
    \/ EmbedMessage
    \/ ExtractMessage
    \/ WorkerRun
    \/ HandleSignal

SpecGui == InitGui /\ [][NextGui]_vars

(***************************************************************************)
(* Properties.                                                             *)
(***************************************************************************)
InputImage == files[result.input]

EmbeddedImage == result.op = "embed_image" /\ InputImage.kind = "image"

\* C1: image round trip. After embed_message_into_image(img, m) with
\* len(m) < estimate_image_capacity(img), the embed has succeeded and
\* extract_message_from_image on its output returns exactly m.
C1_ImageRoundTrip ==
    (EmbeddedImage /\ Len(result.msg) < estimate_image_capacity(InputImage))
        => /\ result.status = "ok"
           /\ extract_message_from_image(files["out"]).status = "ok"
           /\ extract_message_from_image(files["out"]).value = result.msg

C1_Witness ==
    /\ EmbeddedImage
    /\ Len(result.msg) >= 1
    /\ Len(result.msg) < estimate_image_capacity(InputImage)
    /\ result.status = "ok"
    /\ extract_message_from_image(files["out"]).value = result.msg

ChannelBytes(img) == img.w * img.h * 3

BoundaryAt(img) ==
    /\ Len(result.msg) = estimate_image_capacity(img) => result.status = "ok"
    /\ Len(result.msg) = estimate_image_capacity(img) + 1
          => result.status = "error" /\ result.err = "PayloadTooLarge"

\* C4 as claimed: for every image size a payload of exactly capacity bytes is
\* embedded and one of capacity+1 bytes is rejected as too large.
C4_BoundaryEverySize == EmbeddedImage => BoundaryAt(InputImage)

\* C4 (amended): the boundary holds for every image with at least 32 channel
\* bytes (width*height*3 >= 32); a smaller image has capacity 0 and every
\* embed into it, the empty payload included, is rejected as too large.
C4_Boundary ==
    EmbeddedImage =>
        IF ChannelBytes(InputImage) >= HEADER_LEN_BYTES * 8
        THEN BoundaryAt(InputImage)
        ELSE /\ estimate_image_capacity(InputImage) = 0
             /\ result.status = "error"
             /\ result.err = "PayloadTooLarge"

C4_Witness ==
    /\ EmbeddedImage
    /\ estimate_image_capacity(InputImage) >= 1
    /\ Len(result.msg) = estimate_image_capacity(InputImage)
    /\ result.status = "ok"

\* the big-endian value of the 32 header LSBs of a pixel buffer
RECURSIVE HeaderValue(_, _)
HeaderValue(px, i) ==
    IF i > HEADER_LEN_BYTES * 8 THEN 0
    ELSE (px[i] % 2) * (2 ^ (HEADER_LEN_BYTES * 8 - i)) + HeaderValue(px, i + 1)

DeclaredLength(px) ==
    IF \E i \in 1 .. 8 : px[i] % 2 = 1 THEN HugeLength ELSE HeaderValue(px, 9)

\* C9: extract_message_from_image never reads at or beyond the end of the
\* pixel buffer; with fewer than 32 bytes, or with a header length L such
\* that 32 + 8*L > len(buffer), it ends in a bounds error and returns no data;
\* otherwise it returns L bytes.
C9_ExtractBounds ==
    (result.op = "extract_image" /\ InputImage.kind = "image") =>
        LET px == InputImage.px
            short == Len(px) < HEADER_LEN_BYTES * 8
                       \/ HEADER_LEN_BYTES * 8 + 8 * DeclaredLength(px) > Len(px)
        IN  /\ result.reads <= Len(px)
            /\ short => /\ result.status = "error"
                        /\ result.err = "IndexError"
                        /\ result.value = << >>
            /\ ~short => /\ result.status = "ok"
                         /\ Len(result.value) = DeclaredLength(px)

C9_Witness ==
    /\ result.op = "extract_image"
    /\ InputImage.kind = "image"
    /\ Len(InputImage.px) >= HEADER_LEN_BYTES * 8
    /\ DeclaredLength(InputImage.px) \in 1 .. 3
    /\ result.err = "IndexError"

\* bit i (7 = most significant) of a byte
BitOf(byte, i) == (byte \div (2 ^ i)) % 2

RECURSIVE ByteOf(_, _, _)
ByteOf(bits, from, n) ==
    IF n = 0 THEN 0 ELSE bits[from + n - 1] + 2 * ByteOf(bits, from, n - 1)

\* C10: _bytes_to_bits(m) is 8*len(m) bits, most significant bit first per
\* byte in input order, and _bits_to_bytes of it is m; _bits_to_bytes of n
\* bits is floor(n/8) bytes, each the big-endian value of its group of 8, the
\* trailing incomplete group being dropped.
C10_BitPacking ==
    /\ result.op = "_bytes_to_bits" =>
          /\ Len(result.value) = 8 * Len(result.msg)
          /\ \A j \in 1 .. Len(result.msg) : \A i \in 0 .. 7 :
                result.value[8 * (j - 1) + 1 + i] = BitOf(result.msg[j], 7 - i)
          /\ _bits_to_bytes(result.value) = result.msg
    /\ result.op = "_bits_to_bytes" =>
          /\ Len(result.value) = Len(result.msg) \div 8
          /\ \A j \in 1 .. Len(result.value) :
                result.value[j] = ByteOf(result.msg, 8 * (j - 1) + 1, 8)

C10_Witness ==
    /\ result.op = "_bits_to_bytes"
    /\ Len(result.msg) = 9
    /\ result.value = <<129>>

EmbeddedVideo == result.op = "embed_video" /\ files[result.input].kind = "raw"

\* C2 as claimed: append round trip. For every host content and every
\* payload m, extract_message_from_video on the output of
\* embed_message_into_video(host, m) returns exactly m.
C2_AppendRoundTrip ==
    EmbeddedVideo =>
        /\ result.status = "ok"
        /\ extract_message_from_video(files["out"]).status = "ok"
        /\ extract_message_from_video(files["out"]).value = result.msg

\* C7 as claimed: a payload longer than the tail window is returned in full,
\* with exactly its declared length, by the re-read from the payload start.
C7_LargePayloadExtracted ==
    (EmbeddedVideo /\ Len(result.msg) > MaxTail) =>
        extract_message_from_video(files["out"]).value = result.msg

\* the file offsets (0-based) of the marker inside the tail window of bytes b
MarkersInWindow(b) ==
    {i \in (Len(b) - Min(Len(b), MaxTail)) .. (Len(b) - Len(marker)) :
        SubSeq(b, i + 1, i + Len(marker)) = marker}

LastMarker(b) == CHOOSE i \in MarkersInWindow(b) : \A j \in MarkersInWindow(b) : j <= i

\* the length field after the marker at offset p, when all 4 bytes are there
LengthField(b, p) ==
    IF b[p + 6] # 0 THEN HugeLength
    ELSE b[p + 7] * 65536 + b[p + 8] * 256 + b[p + 9]

\* the envelope at the last marker of the window is complete
CompleteEnvelope(b) ==
    /\ MarkersInWindow(b) # {}
    /\ LastMarker(b) + Len(marker) + HEADER_LEN_BYTES <= Len(b)
    /\ LastMarker(b) + Len(marker) + HEADER_LEN_BYTES + LengthField(b, LastMarker(b)) <= Len(b)

\* C8: extract_message_from_video raises only for a path that does not exist;
\* for an existing file it returns the empty byte sequence when the tail
\* window holds no marker, the last marker is not followed by a full 4-byte
\* length, or the declared length exceeds the bytes remaining in the file;
\* otherwise it returns the declared number of bytes that follow the length.
C8_AppendEmptyOutcomes ==
    result.op = "extract_video" =>
        IF files[result.input].kind = "none"
        THEN result.status = "error" /\ result.err = "InputNotFound"
        ELSE LET b == files[result.input].bytes
                 p == LastMarker(b)
             IN  /\ result.status = "ok"
                 /\ ~CompleteEnvelope(b) => result.value = << >>
                 /\ CompleteEnvelope(b) =>
                       result.value = SubSeq(b, p + 10, p + 9 + LengthField(b, p))

C8_Witness ==
    /\ result.op = "extract_video"
    /\ files[result.input].kind = "raw"
    /\ MarkersInWindow(files[result.input].bytes) # {}
    /\ LastMarker(files[result.input].bytes) + 9 <= Len(files[result.input].bytes)
    /\ LengthField(files[result.input].bytes, LastMarker(files[result.input].bytes)) \in 1 .. 2
    /\ ~CompleteEnvelope(files[result.input].bytes)
    /\ result.status = "ok"
    /\ result.value = << >>

\* a finished embed_message_into_video_lsb call on an input that is a video,
\* in which neither the collaborator nor the writer negotiation failed
EmbeddedVideoLsb ==
    /\ result.op = "embed_video_lsb"
    /\ pc = "idle"
    /\ files[result.input].kind = "video"
    /\ result.err \notin {"CollaboratorFailed", "WriterUnavailable"}

\* the pixel-byte LSB slots of a video
Slots(f) == Len(f.frames) * f.w * f.h * 3

\* C3 as claimed: frame-LSB round trip. For every bitsPerChannel passed and
\* every payload m with len(m) < estimate_video_capacity_lsb(video,
\* bitsPerChannel) the embed succeeds and extract_message_from_video_lsb on
\* its output returns exactly m, on the collaborator and the fallback path.
C3_FrameLsbRoundTrip ==
    (EmbeddedVideoLsb
       /\ Len(result.msg) < estimate_video_capacity_lsb(files[result.input], result.bpc))
        => /\ result.status = "ok"
           /\ \A ffmpeg \in BOOLEAN :
                 /\ extract_message_from_video_lsb(files["out"], ffmpeg, TRUE).status = "ok"
                 /\ extract_message_from_video_lsb(files["out"], ffmpeg, TRUE).value = result.msg

\* C5 as claimed: whenever the framed payload (32 + 8*len(m) bits) does not
\* fit in the LSB slots of the video's frames, the embed fails as too large,
\* with the collaborator and on the fallback path.
C5_OverCapacityRejected ==
    (EmbeddedVideoLsb
       /\ Len(files[result.input].frames) > 0
       /\ HEADER_LEN_BYTES * 8 + 8 * Len(result.msg) > Slots(files[result.input]))
        => result.status = "error" /\ result.err = "PayloadTooLarge"

EmbedOps == {"embed_image", "embed_video", "embed_video_lsb"}

\* the call ended in a rejection: payload too large, or input not found (which
\* on the collaborator path shows as the failure of the frame extraction)
Rejected ==
    /\ result.op \in EmbedOps
    /\ pc = "idle"
    /\ result.status = "error"
    /\ \/ result.err \in {"PayloadTooLarge", "InputNotFound", "NoFrames"}
       \/ result.phase = "extracting"

\* C6: every rejection of an embed (image, append, frame-LSB on either path)
\* is decided before the output path is opened for writing: up to the
\* reassembly or the opening of the fallback writer the output is neither
\* opened nor changed, and a call that ends rejected leaves it as it was.
C6_NoPartialOutput ==
    /\ Rejected => ~opened /\ files["out"] = out_before
    /\ pc \in {"extracting", "embedding", "reassembling", "fallback"}
          => ~opened /\ files["out"] = out_before

C6_Witness ==
    /\ Rejected
    /\ result.op = "embed_video_lsb"
    /\ result.err = "PayloadTooLarge"
    /\ result.phase = "embedding"
    /\ out_before.kind = "video"
    /\ files["out"] = out_before

\* C11: append output layout. After a successful embed_message_into_video the
\* output file is the input file's bytes followed by the 5 bytes CLRV1, the
\* 4-byte big-endian length of m, and m; the input file is unchanged; with an
\* input path that does not exist the call fails with input-not-found.
C11_AppendLayout ==
    [][EmbedVideo =>
          LET host == files[result'.input]
              m == result'.msg
          IN  IF host.kind = "none"
              THEN /\ result'.status = "error"
                   /\ result'.err = "InputNotFound"
                   /\ files' = files
              ELSE LET n == Len(host.bytes)
                       out == files'["out"].bytes
                   IN  /\ result'.status = "ok"
                       /\ files'[result'.input] = host
                       /\ Len(out) = n + 9 + Len(m)
                       /\ SubSeq(out, 1, n) = host.bytes
                       /\ SubSeq(out, n + 1, n + 5) = <<67, 76, 82, 86, 49>>
                       /\ out[n + 6] = 0
                       /\ out[n + 7] * 65536 + out[n + 8] * 256 + out[n + 9] = Len(m)
                       /\ SubSeq(out, n + 10, Len(out)) = m]_vars

C11_Witness ==
    /\ EmbeddedVideo
    /\ result.status = "ok"
    /\ MarkersInWindow(files["in"].bytes) # {}
    /\ Len(result.msg) >= 1
    /\ Len(files["out"].bytes) = Len(files["in"].bytes) + 9 + Len(result.msg)
    /\ files["out"].bytes[Len(files["in"].bytes) + 9] = Len(result.msg)

\* the call in flight ends in failure at this step
EndsInFailure == pc' = "idle" /\ result'.op = "embed_video_lsb" /\ result'.status = "error"

\* the call in flight ends successfully at this step
EndsDone ==
    /\ pc' = "idle"
    /\ result'.op = "embed_video_lsb"
    /\ result'.status = "ok"
    /\ result'.phase = "done"

\* the input of the call in flight yields no frame
NoFrameExtracted ==
    ~cap_opened(files[loc.input]) \/ Len(files[loc.input].frames) = 0

\* the phase a step leads to, per phase it starts from
PhaseStep ==
    CASE pc = "idle" -> pc' \in {"idle", "extracting", "fallback"}
      [] pc = "extracting" -> pc' = "embedding" \/ EndsInFailure
      [] pc = "embedding" -> pc' \in {"embedding", "reassembling"} \/ EndsInFailure
      [] pc = "reassembling" -> EndsDone \/ EndsInFailure
      [] pc = "fallback" -> pc' = "fb_writing" \/ EndsInFailure
      [] pc = "fb_writing" -> pc' = "fb_writing" \/ EndsDone

\* C12: frame-LSB phase ordering. Every embed_message_into_video_lsb call goes
\* Idle -> Extracting-Frames -> Embedding-Per-Frame -> Reassembling -> Done or
\* ends in failure; the fallback is entered if and only if the collaborator
\* was found unavailable at the start of the call; a failed run of the
\* collaborator while extracting or reassembling ends the call in failure,
\* with no retry and no move to the fallback; zero extracted frames end the
\* embed in a frame-extraction failure.
C12_PhaseOrder ==
    /\ [][/\ PhaseStep
          /\ VLsbStart =>
                /\ pc' = "fallback" <=> ~(IF pc' = "idle" THEN result'.ffmpeg ELSE loc'.ffmpeg)
                /\ pc' = "idle" => EndsInFailure
          /\ pc' = "fallback" => pc = "idle"
          /\ pc' = "extracting" => pc = "idle"
          /\ (pc # "idle" /\ pc' # "idle") => loc'.ffmpeg = loc.ffmpeg
          /\ pc \in {"extracting", "embedding", "reassembling"} => loc.ffmpeg
          /\ pc \in {"fallback", "fb_writing"} => ~loc.ffmpeg
          /\ (pc # "idle" /\ result'.err = "CollaboratorFailed") =>
                /\ pc \in {"extracting", "reassembling"}
                /\ EndsInFailure
          /\ (pc = "extracting" /\ NoFrameExtracted) =>
                /\ EndsInFailure
                /\ result'.err \in {"NoFrames", "CollaboratorFailed"}
                /\ result'.phase = "extracting"
          /\ (result'.op = "embed_video_lsb" /\ result'.err = "NoFrames") =>
                /\ pc = "extracting"
                /\ NoFrameExtracted]_vars
    /\ (pc # "idle") ~> (pc = "idle" /\ result.op = "embed_video_lsb")

C12_Witness ==
    /\ pc = "idle"
    /\ result.op = "embed_video_lsb"
    /\ result.ffmpeg
    /\ result.status = "error"
    /\ result.err = "CollaboratorFailed"
    /\ result.phase = "reassembling"

\* the virtual concatenation of the frame buffers, in increasing frame order
RECURSIVE Concatenation(_, _)
Concatenation(frames, k) ==
    IF k > Len(frames) THEN << >> ELSE frames[k] \o Concatenation(frames, k + 1)

\* bit k (0-based) of the framed message: 4-byte big-endian length, then m
FramedBit(m, k) ==
    LET j == k \div 8
        byte == IF j < 4 THEN (Len(m) \div (256 ^ (3 - j))) % 256 ELSE m[j - 3]
    IN  BitOf(byte, 7 - (k % 8))

\* the framed message m sits in the LSBs of the first bytes of after, and
\* nothing else of before was changed
Placed(before, after, m) ==
    LET nbits == 32 + 8 * Len(m)
    IN  /\ Len(after) = Len(before)
        /\ nbits <= Len(after)
        /\ \A k \in 0 .. nbits - 1 : after[k + 1] % 2 = FramedBit(m, k)
        /\ \A i \in 1 .. Len(before) : after[i] \div 2 = before[i] \div 2
        /\ \A i \in nbits + 1 .. Len(before) : after[i] = before[i]

\* C13 as claimed: cross-frame bit placement. After a successful frame-LSB
\* embed of the framed message F, for every k < 8*len(F) the LSB of byte k of
\* the concatenation of the frame buffers is bit k of F, the upper 7 bits of
\* every byte and all bytes from index 8*len(F) on are unchanged; the same
\* after a successful embed_message_into_image, with its single buffer.
C13_BitPlacement ==
    /\ (EmbeddedImage /\ result.status = "ok") =>
          /\ files["out"].kind = "image"
          /\ Placed(InputImage.px, files["out"].px, result.msg)
    /\ (EmbeddedVideoLsb /\ result.status = "ok") =>
          /\ files["out"].kind = "video"
          /\ Len(files["out"].frames) = Len(files[result.input].frames)
          /\ \A k \in 1 .. Len(files["out"].frames) :
                Len(files["out"].frames[k]) = Len(files[result.input].frames[k])
          /\ Placed(Concatenation(files[result.input].frames, 1),
                    Concatenation(files["out"].frames, 1), result.msg)

\* a finished extract_message_from_video_lsb call on a video, in which the
\* collaborator (when used) ran successfully
ExtractedVideoLsb ==
    /\ result.op = "extract_video_lsb"
    /\ files[result.input].kind = "video"
    /\ result.err # "CollaboratorFailed"

\* C14: frame-LSB extraction outcomes. extract_message_from_video_lsb reads the
\* LSBs of consecutive pixel bytes across frame boundaries and takes the first
\* 32 as the big-endian length L; (a) it returns the next 8*L bits as L bytes
\* at the byte that completes them, reading no later byte; (b) it returns the
\* empty byte sequence, not an error, when L = 0 or the frames are exhausted
\* before 32 + 8*L bits were read; the result is never a non-empty sequence
\* of another length than L; the same on the collaborator and fallback path.
C14_VideoLsbExtractOutcomes ==
    ExtractedVideoLsb =>
        LET f == files[result.input]
            all == Concatenation(f.frames, 1)
            lsbs == [i \in 1 .. Len(all) |-> all[i] % 2]
            L == DeclaredLength(all)
        IN  /\ result.status = "ok"
            /\ IF Len(all) < 32
               THEN result.value = << >> /\ result.reads = Len(all)
               ELSE IF L = 0
               THEN result.value = << >> /\ result.reads = 32
               ELSE IF 32 + 8 * L > Len(all)
               THEN result.value = << >> /\ result.reads = Len(all)
               ELSE /\ Len(result.value) = L
                    /\ \A j \in 1 .. L : result.value[j] = ByteOf(lsbs, 32 + 8 * (j - 1) + 1, 8)
                    /\ result.reads = 32 + 8 * L

C14_Witness ==
    /\ ExtractedVideoLsb
    /\ Len(files[result.input].frames) >= 4
    /\ Len(files[result.input].frames[1]) < 32
    /\ Len(result.value) >= 1
    /\ result.reads > 32
    /\ result.reads < Len(Concatenation(files[result.input].frames, 1))

\* a byte with bit b (1..7) inverted
Flip(byte, b) == IF BitOf(byte, b) = 1 THEN byte - 2 ^ b ELSE byte + 2 ^ b

\* the upper bit inverted at position i: every position has one, and every
\* upper bit is inverted at some position
FlipAt(i) == (i % 7) + 1

\* buffers that agree with px on the LSB of every byte: an upper bit of one
\* byte inverted, all upper bits cleared, all upper bits set
SameLsbBuffers(px) ==
    {[px EXCEPT ![i] = Flip(@, FlipAt(i))] : i \in 1 .. Len(px)}
        \cup {[i \in 1 .. Len(px) |-> px[i] % 2], [i \in 1 .. Len(px) |-> 254 + (px[i] % 2)]}

\* frame sequences of the same shape that agree on the LSB of every byte
SameLsbFrames(frames) ==
    UNION {{[frames EXCEPT ![k][i] = Flip(@, FlipAt(i + k))] : i \in 1 .. Len(frames[k])} :
              k \in 1 .. Len(frames)}
        \cup {[k \in 1 .. Len(frames) |-> [i \in 1 .. Len(frames[k]) |-> frames[k][i] % 2]],
              [k \in 1 .. Len(frames) |-> [i \in 1 .. Len(frames[k]) |-> 254 + (frames[k][i] % 2)]]}

SameOutcome(o) ==
    /\ o.status = result.status
    /\ o.err = result.err
    /\ o.value = result.value

\* C15: extraction depends only on LSBs. For pixel buffers (an image, or
\* frame sequences of equal shape) that agree on the least-significant bit of
\* every byte, extract_message_from_image and extract_message_from_video_lsb
\* give the same outcome, a byte sequence or a bounds error; changing any of
\* the upper 7 bits of any pixel byte never changes the extracted result.
C15_OnlyLsbsMatter ==
    /\ (result.op = "extract_image" /\ InputImage.kind = "image") =>
          \A px \in SameLsbBuffers(InputImage.px) :
             SameOutcome(extract_message_from_image(ImageFile(InputImage.w, InputImage.h, px)))
    /\ ExtractedVideoLsb =>
          \A frames \in SameLsbFrames(files[result.input].frames) :
             SameOutcome(extract_message_from_video_lsb(
                            VideoFile(files[result.input].w, files[result.input].h, frames),
                            result.ffmpeg, TRUE))

C15_Witness ==
    /\ result.op = "extract_image"
    /\ InputImage.kind = "image"
    /\ result.status = "ok"
    /\ Len(result.value) >= 1
    /\ \E i \in 1 .. Len(InputImage.px) : InputImage.px[i] > 1
    /\ extract_message_from_image(
          ImageFile(InputImage.w, InputImage.h,
                    [i \in 1 .. Len(InputImage.px) |-> InputImage.px[i] % 2])).value
            = result.value

AllDisabled == ~gui.open_btn /\ ~gui.embed_btn /\ ~gui.extract_btn

AllEnabled == gui.open_btn /\ gui.embed_btn /\ gui.extract_btn

\* C16: GUI worker exclusivity. From the start of a video embed or extract
\* worker until its done or error signal is handled, the Open, Embed and
\* Extract buttons are all disabled, so at most one worker is in flight at
\* any time; after every worker completion, done or error, all three buttons
\* are enabled again, so the window never stays disabled for good.
C16_WorkerExclusivity ==
    /\ [](/\ Len(gui.workers) <= 1
          /\ gui.workers # << >> => AllDisabled
          /\ gui.workers = << >> => AllEnabled)
    /\ [][HandleSignal => AllEnabled']_vars

C16_Witness ==
    /\ gui.workers = << >>
    /\ AllEnabled
    /\ gui.dialog = "error"
    /\ gui.current_path = "in"
    /\ is_video_path("in")
    /\ gui.video_lsb_cb
    /\ files["out"].kind = "corrupt"

====
